---- MODULE Spec2Model ----
(***************************************************************************)
(* A model of package cloudglog (src/logging.go, lines 1-655): the five   *)
(* package loggers, the layout sinks defaultLogger and modernLogger, the   *)
(* colour decoration, the severity functions and the verbosity token.      *)
(*                                                                         *)
(* Strings are TLA+ strings; TLC treats them as sequences of characters    *)
(* (Len, SubSeq, \o), so the sinks tokenise and re-join a line character   *)
(* by character, as strings.FieldsFunc and strings.Join do.                *)
(***************************************************************************)
EXTENDS Integers, Sequences, FiniteSets, TLC

VARIABLES
    proc,           \* "boot" before init(), "run", "exited", "panicked"
    exitStatus,     \* the process exit status once proc is "exited"/"panicked"
    LogLevel,       \* var LogLevel int
    Format,         \* var Format formatType
    colorFormating, \* var colorFormating colorFormat
    traceLog, infoLog, warningLog, errorLog, fatalLog,  \* the five *log.Logger
    sink,           \* an io.Writer the caller obtained from LogFilter and kept
    v,              \* the Verbose token the caller obtained from V and kept
    last,           \* the most recent call: its name, inputs and events
    failing,        \* the destinations whose Write returns an error (closed)
    logFile,        \* the writer most recently given to LogFile, "" if none
    gor,            \* the goroutines that log concurrently: where each one is
    gen             \* how many times the five loggers have been rebuilt

vars == <<proc, exitStatus, LogLevel, Format, colorFormating,
          traceLog, infoLog, warningLog, errorLog, fatalLog, sink, v, last,
          failing, logFile, gor, gen>>

config == <<LogLevel, Format, colorFormating>>
loggers == <<traceLog, infoLog, warningLog, errorLog, fatalLog>>
world == <<failing, logFile>>
conc == <<gor, gen>>

(***************************************************************************)
(* Bounds of the model.                                                    *)
(***************************************************************************)
MaxLevel == 2       \* levels 0..MaxLevel are set; V is asked up to MaxLevel+1
MaxGen == 2         \* the loggers are rebuilt at most MaxGen times under concurrent load
MaxDepth == 4       \* the *Depth functions are called with depth 0..MaxDepth

(***************************************************************************)
(* Program constants.                                                      *)
(***************************************************************************)
CallDepth == 2

DefaultFormat == 0
ModernFormat == 1

TRACE == 0
INFO == 1
WARNING == 2
ERROR == 3
FATAL == 4

ColorBlack == 30
ColorRed == 31
ColorGreen == 32
ColorYellow == 33
ColorBlue == 34
ColorMagenta == 35
ColorCyan == 36
ColorWhite == 37

NoColor == 0
PrefixColor == 1
PrefixBoldColor == 2
FullColor == 3
FullBoldColor == 4
FullColorWithBoldMessage == 5
FullColorWithBoldPrefix == 6

\* The byte 0x1b, which a TLA+ string literal cannot hold: one character
\* that occurs in no other string of the model.
ESC == "^"

(***************************************************************************)
(* Strings.                                                                *)
(***************************************************************************)
Ch(s, i) == SubSeq(s, i, i)

LastCh(s) == Ch(s, Len(s))

\* strings.FieldsFunc(s, f), f true of the characters of seps: the maximal
\* runs of characters outside seps, in order; no field is empty. A field
\* starts at a character outside seps that is the first of s or follows one
\* of seps, and ends before the next character of seps or at the end of s.
FieldsFunc(s, seps) ==
    LET n == Len(s)
        starts == {i \in 1..n : Ch(s, i) \notin seps /\ (i = 1 \/ Ch(s, i - 1) \in seps)}
        ends == {i \in 1..n : Ch(s, i) \notin seps /\ (i = n \/ Ch(s, i + 1) \in seps)}
        Nth(set, k) == CHOOSE i \in set : Cardinality({j \in set : j < i}) = k - 1
    IN  [k \in 1..Cardinality(starts) |-> SubSeq(s, Nth(starts, k), Nth(ends, k))]

RECURSIVE Join(_, _)
\* strings.Join(elems, sep)
Join(elems, sep) ==
    IF elems = <<>> THEN ""
    ELSE IF Len(elems) = 1 THEN elems[1]
    ELSE elems[1] \o sep \o Join(Tail(elems), sep)

(***************************************************************************)
(* Colours.                                                                *)
(***************************************************************************)
colorSeq(color) == ESC \o "[" \o ToString(color) \o "m"

colorSeqBold(color) == ESC \o "[" \o ToString(color) \o ";1m"

ColorOf(lType) ==
    CASE lType = TRACE -> ColorCyan
      [] lType = INFO -> ColorGreen
      [] lType = WARNING -> ColorYellow
      [] lType = ERROR -> ColorRed
      [] lType = FATAL -> ColorMagenta

colors(lType) == colorSeq(ColorOf(lType))

boldcolors(lType) == colorSeqBold(ColorOf(lType))

Reset == ESC \o "[0m"

\* message[prefixEnd] = message[prefixEnd] + suffix, Go's index being 0-based
Suffixed(message, prefixEnd, suffix) ==
    [message EXCEPT ![prefixEnd + 1] = @ \o suffix]

\* A variant of addColor whose full scheme takes the bold sequence.
addColor_FullBold(lType, prefixEnd, message) ==
    CASE colorFormating \in {PrefixColor, PrefixBoldColor} ->
           <<boldcolors(lType)>> \o Suffixed(message, prefixEnd, Reset)
      [] colorFormating \in {FullColor, FullBoldColor} ->
           <<boldcolors(lType)>> \o message \o <<Reset>>
      [] OTHER -> message

addColor(lType, prefixEnd, message) ==
    CASE colorFormating = PrefixColor ->
           <<colors(lType)>> \o Suffixed(message, prefixEnd, Reset)
      [] colorFormating = PrefixBoldColor ->
           <<boldcolors(lType)>> \o Suffixed(message, prefixEnd, Reset)
      [] colorFormating = FullColor ->
           <<colors(lType)>> \o message \o <<Reset>>
      [] colorFormating = FullBoldColor ->
           <<boldcolors(lType)>> \o message \o <<Reset>>
      [] colorFormating = FullColorWithBoldMessage ->
           <<colors(lType)>> \o Suffixed(message, prefixEnd, boldcolors(lType))
                             \o <<Reset>>
      [] colorFormating = FullColorWithBoldPrefix ->
           <<boldcolors(lType)>> \o Suffixed(message, prefixEnd, colors(lType))
                                 \o <<Reset>>
      [] OTHER -> message

(***************************************************************************)
(* Events of one call, in order: the standard logger, asked for the frame  *)
(* calldepth, hands a raw line to its sink; a sink writes a line to its    *)
(* underlying destination; the process exits; a run-time panic unwinds the *)
(* call.                                                                   *)
(***************************************************************************)
EvSink(prefix, calldepth, raw) ==
    [ev |-> "sink", at |-> prefix, data |-> raw, depth |-> calldepth]

\* dest.Write(line) and what it returns: the whole length and no error, or,
\* from a destination that fails, nothing written and its error.
EvWrite(dest, line) ==
    [ev |-> "write", at |-> dest, data |-> line,
     n |-> IF dest \in failing THEN 0 ELSE Len(line),
     err |-> IF dest \in failing THEN "EBADF" ELSE "nil"]

\* What a Write returns to its caller.
EvResult(n, err) == [ev |-> "result", at |-> "Write", data |-> err, n |-> n]

EvExit(code) == [ev |-> "exit", at |-> "os", data |-> ToString(code)]

EvPanic(why) == [ev |-> "panic", at |-> "runtime", data |-> why]

Panicked(events) == events # <<>> /\ events[Len(events)].ev = "panic"

(***************************************************************************)
(* The sinks.                                                              *)
(***************************************************************************)
\* A variant of the default sink that joins the tokens without the spaces.
defaultLoggerWrite_Unspaced(d, bytes) ==
    <<EvWrite(d.out, Join(FieldsFunc(bytes, {" "}), ""))>>

\* A variant of the sinks' return that reports success whatever the
\* destination returned.
Returning_Swallowed(w) == <<w, EvResult(Len(w.data), "nil")>>

\* return d.out.Write(...): the write on the destination, and its result
\* handed to the caller as it is.
Returning(w) == <<w, EvResult(w.n, w.err)>>

\* find log prefix (starts with '/' and ends with ':')
prefixEndOf(format) ==
    IF Ch(format[4], 1) = "/" /\ LastCh(format[4]) = ":" THEN 3 ELSE 2

defaultLoggerWrite(d, bytes) ==
    LET format == FieldsFunc(bytes, {" "})
    IN  IF Len(format) < 4
        THEN <<EvPanic("index out of range")>>
        ELSE LET prefixEnd == prefixEndOf(format)
                 colored == addColor(d.logType, prefixEnd, format)
             IN  Returning(EvWrite(d.out, Join(colored, " ")))

modernLoggerWrite(m, bytes) ==
    LET format == FieldsFunc(bytes, {" "})
    IN  IF Len(format) < 4
        THEN <<EvPanic("index out of range")>>
        ELSE LET prefixEnd == prefixEndOf(format)
                 subFormat == FieldsFunc(format[prefixEnd + 1], {"/", ":"})
                 n == Len(subFormat)
             IN  IF n < 3
                 THEN <<EvPanic("slice bounds out of range")>>
                 ELSE LET modernLongFile == SubSeq(subFormat, n - 2, n)
                          field == Join(<<"[", modernLongFile[1], "]",
                                          "[", modernLongFile[2], "]",
                                          "[:", modernLongFile[3], "]", "\t">>, "")
                          rewritten == [format EXCEPT ![prefixEnd + 1] = field]
                          colored == addColor(m.logType, prefixEnd, rewritten)
                      IN  Returning(EvWrite(m.out, Join(colored, " ")))

\* A variant of LogFilter with the default layout as the default case.
LogFilter_DefaultCase(w, ltype) ==
    IF Format = ModernFormat
    THEN [kind |-> "modernLogger", out |-> w, logType |-> ltype]
    ELSE [kind |-> "defaultLogger", out |-> w, logType |-> ltype]

\* The value LogFilter returns: a defaultLogger, a modernLogger or
\* ioutil.Discard (which has neither field; they are kept for the record's shape).
LogFilter(w, ltype) ==
    CASE Format = DefaultFormat ->
           [kind |-> "defaultLogger", out |-> w, logType |-> ltype]
      [] Format = ModernFormat ->
           [kind |-> "modernLogger", out |-> w, logType |-> ltype]
      [] OTHER ->
           [kind |-> "Discard", out |-> "Discard", logType |-> ltype]

\* A variant of the sinks' dispatch that reads Format when a line is written.
SinkWrite_ByFormat(w, bytes) ==
    CASE Format = DefaultFormat -> defaultLoggerWrite(w, bytes)
      [] Format = ModernFormat -> modernLoggerWrite(w, bytes)
      [] OTHER -> <<EvResult(Len(bytes), "nil")>>

\* w.Write(bytes) on an io.Writer that LogFilter returned: dispatch on its
\* type. ioutil.Discard writes nowhere and returns len(bytes) and no error.
SinkWrite(w, bytes) ==
    CASE w.kind = "defaultLogger" -> defaultLoggerWrite(w, bytes)
      [] w.kind = "modernLogger" -> modernLoggerWrite(w, bytes)
      [] OTHER -> <<EvResult(Len(bytes), "nil")>>

(***************************************************************************)
(* The standard logger (package log), as the package uses it.              *)
(***************************************************************************)
NilLogger == [nil |-> TRUE, prefix |-> "", out |-> [kind |-> "Discard", out |-> "Discard", logType |-> TRACE]]

\* log.New(out, prefix, log.Ldate|log.Ltime|log.Llongfile)
LogNew(out, prefix) == [nil |-> FALSE, prefix |-> prefix, out |-> out]

\* The clock is fixed.
Date == "2024/01/01"
Time == "00:00:00"

\* Where Logger.Output itself is, and where the package's functions are.
OutputFrame == [file |-> "/go/src/log/log.go", line |-> 172]
Here(line) == [file |-> "/go/src/cloudglog/logging.go", line |-> line]
Unknown == [file |-> "???", line |-> 0]

\* runtime.Caller(calldepth) inside Output: 0 is Output, 1 its caller (the
\* package function at `here`), 2 that function's caller, the top of `stk`.
Caller(calldepth, here, stk) ==
    CASE calldepth = 0 -> OutputFrame
      [] calldepth = 1 -> here
      [] calldepth >= 2 /\ calldepth - 1 <= Len(stk) -> stk[calldepth - 1]
      [] OTHER -> Unknown

\* _, err := l.out.Write(l.buf); return err: Output keeps the error only,
\* and the functions of the package drop what Output returns.
Dropped(events) == SelectSeq(events, LAMBDA e : e.ev # "result")

\* l.Output(calldepth, s): header, s, a newline if s does not end in one,
\* then one Write on the logger's writer. A nil logger is dereferenced.
Output(l, calldepth, s, here, stk) ==
    IF l.nil
    THEN <<EvPanic("nil pointer dereference")>>
    ELSE LET at == Caller(calldepth, here, stk)
             nl == IF s = "" \/ LastCh(s) # "\n" THEN "\n" ELSE ""
             raw == l.prefix \o Date \o " " \o Time \o " "
                    \o at.file \o ":" \o ToString(at.line) \o ": " \o s \o nl
         IN  <<EvSink(l.prefix, calldepth, raw)>> \o Dropped(SinkWrite(l.out, raw))

(***************************************************************************)
(* Package fmt, for string operands and the verb %s.                       *)
(***************************************************************************)
\* fmt.Sprint: no space is added between operands when either is a string.
Sprint(args) == Join(args, "")

\* fmt.Sprintln: spaces between operands, a newline at the end.
Sprintln(args) == Join(args, " ") \o "\n"

RECURSIVE SprintfFrom(_, _, _)
SprintfFrom(format, i, args) ==
    IF i > Len(format) THEN ""
    ELSE IF i < Len(format) /\ SubSeq(format, i, i + 1) = "%s" /\ args # <<>>
         THEN args[1] \o SprintfFrom(format, i + 2, Tail(args))
         ELSE Ch(format, i) \o SprintfFrom(format, i + 1, args)

Sprintf(format, args) == SprintfFrom(format, 1, args)

(***************************************************************************)
(* strconv.Atoi on short strings: an optional sign and decimal digits.     *)
(***************************************************************************)
Digits == "0123456789"

IsDigit(c) == \E i \in 1..Len(Digits) : Ch(Digits, i) = c

DigitVal(c) == (CHOOSE i \in 1..Len(Digits) : Ch(Digits, i) = c) - 1

RECURSIVE DigitsVal(_)
DigitsVal(s) ==
    IF s = "" THEN 0
    ELSE DigitsVal(SubSeq(s, 1, Len(s) - 1)) * Len(Digits) + DigitVal(LastCh(s))

Atoi(s) ==
    LET signed == s # "" /\ Ch(s, 1) \in {"+", "-"}
        body == IF signed THEN SubSeq(s, 2, Len(s)) ELSE s
        ok == body # "" /\ \A i \in 1..Len(body) : IsDigit(Ch(body, i))
        n == IF ok THEN DigitsVal(body) ELSE 0
    IN  [err |-> ~ok, n |-> IF signed /\ Ch(s, 1) = "-" THEN 0 - n ELSE n]

(***************************************************************************)
(* The severity functions. Each gives the events of one call made from the *)
(* call stack stk, whose first frame is the call site.                     *)
(***************************************************************************)
\* What follows a call of Output when the call did not panic.
Then(events, more) == IF Panicked(events) THEN events ELSE events \o more

\* buf.Bytes()[buf.Len()-1] of an empty buffer
EmptyBuffer == <<EvPanic("index out of range")>>

\* if buf.Bytes()[buf.Len()-1] != '\n' { buf.WriteByte('\n') }, buf not empty
WithNewline(buf) == IF LastCh(buf) # "\n" THEN buf \o "\n" ELSE buf

Info(args, stk) ==
    Output(infoLog, CallDepth, Sprint(args), Here(306), stk)

InfoDepth(depth, args, stk) ==
    Output(infoLog, depth, Sprint(args), Here(312), stk)

Infoln(args, stk) ==
    Output(infoLog, CallDepth, Sprintln(args), Here(318), stk)

Infof(format, args, stk) ==
    LET buf == Sprintf(format, args)
    IN  IF buf = "" THEN EmptyBuffer
        ELSE Output(infoLog, CallDepth, WithNewline(buf), Here(330), stk)

Warning(args, stk) ==
    Output(warningLog, CallDepth, Sprint(args), Here(336), stk)

WarningDepth(depth, args, stk) ==
    Output(warningLog, depth, Sprint(args), Here(342), stk)

Warningln(args, stk) ==
    Output(warningLog, CallDepth, Sprintln(args), Here(348), stk)

Warningf(format, args, stk) ==
    Output(warningLog, CallDepth, Sprintf(format, args), Here(354), stk)

Error(args, stk) ==
    Output(errorLog, CallDepth, Sprint(args), Here(360), stk)

ErrorDepth(depth, args, stk) ==
    Output(errorLog, depth, Sprint(args), Here(366), stk)

Errorln(args, stk) ==
    Output(errorLog, CallDepth, Sprintln(args), Here(372), stk)

Errorf(format, args, stk) ==
    LET buf == Sprintf(format, args)
    IN  IF buf = "" THEN EmptyBuffer
        ELSE Output(errorLog, CallDepth, WithNewline(buf), Here(384), stk)

Fatal(args, stk) ==
    Output(fatalLog, CallDepth, Sprint(args), Here(390), stk)

FatalDepth(depth, args, stk) ==
    Output(fatalLog, depth, Sprint(args), Here(396), stk)

Fatalln(args, stk) ==
    Output(fatalLog, CallDepth, Sprintln(args), Here(401), stk)

Fatalf(format, args, stk) ==
    LET buf == Sprintf(format, args)
    IN  IF buf = "" THEN EmptyBuffer
        ELSE Output(fatalLog, CallDepth, WithNewline(buf), Here(413), stk)

Exit(args, stk) ==
    Then(Output(fatalLog, CallDepth, Sprint(args), Here(419), stk), <<EvExit(1)>>)

ExitDepth(depth, args, stk) ==
    Then(Output(fatalLog, depth, Sprint(args), Here(426), stk), <<EvExit(1)>>)

Exitln(args, stk) ==
    Then(Output(fatalLog, CallDepth, Sprintln(args), Here(432), stk), <<EvExit(1)>>)

Exitf(format, args, stk) ==
    LET buf == Sprintf(format, args)
    IN  IF buf = "" THEN EmptyBuffer
        ELSE Then(Output(fatalLog, CallDepth, WithNewline(buf), Here(445), stk), <<EvExit(1)>>)

(***************************************************************************)
(* The methods of the verbosity token; tok is the receiver.                *)
(***************************************************************************)
\* A variant of V that takes the threshold strictly.
V_Strict(level) == LogLevel > level

\* func V(level int) Verbose
V(level) == LogLevel >= level

VerboseInfo(tok, args, stk) ==
    IF tok
    THEN Output(infoLog, CallDepth + 1, Sprint(args), Here(477), stk)
    ELSE <<>>

VerboseInfoDepth(tok, depth, args, stk) ==
    IF tok
    THEN Output(infoLog, depth, Sprint(args), Here(485), stk)
    ELSE <<>>

VerboseInfoln(tok, args, stk) ==
    IF tok
    THEN Output(infoLog, CallDepth + 1, Sprintln(args), Here(493), stk)
    ELSE <<>>

VerboseInfof(tok, format, args, stk) ==
    IF tok
    THEN LET buf == Sprintf(format, args)
         IN  IF buf = "" THEN EmptyBuffer
             ELSE Output(infoLog, CallDepth + 1, WithNewline(buf), Here(506), stk)
    ELSE <<>>

VerboseWarning(tok, args, stk) ==
    IF tok
    THEN Output(warningLog, CallDepth + 1, Sprint(args), Here(514), stk)
    ELSE <<>>

VerboseWarningDepth(tok, depth, args, stk) ==
    IF tok
    THEN Output(warningLog, depth, Sprint(args), Here(522), stk)
    ELSE <<>>

VerboseWarningln(tok, args, stk) ==
    IF tok
    THEN Output(warningLog, CallDepth + 1, Sprintln(args), Here(530), stk)
    ELSE <<>>

VerboseWarningf(tok, format, args, stk) ==
    IF tok
    THEN Output(warningLog, CallDepth + 1, Sprintf(format, args), Here(538), stk)
    ELSE <<>>

VerboseError(tok, args, stk) ==
    IF tok
    THEN Output(errorLog, CallDepth + 1, Sprint(args), Here(546), stk)
    ELSE <<>>

VerboseErrorDepth(tok, depth, args, stk) ==
    IF tok
    THEN Output(errorLog, depth, Sprint(args), Here(554), stk)
    ELSE <<>>

VerboseErrorln(tok, args, stk) ==
    IF tok
    THEN Output(errorLog, CallDepth + 1, Sprintln(args), Here(562), stk)
    ELSE <<>>

VerboseErrorf(tok, format, args, stk) ==
    IF tok
    THEN LET buf == Sprintf(format, args)
         IN  IF buf = "" THEN EmptyBuffer
             ELSE Output(errorLog, CallDepth + 1, WithNewline(buf), Here(575), stk)
    ELSE <<>>

VerboseFatal(tok, args, stk) ==
    IF tok
    THEN Output(fatalLog, CallDepth + 1, Sprint(args), Here(583), stk)
    ELSE <<>>

VerboseFatalDepth(tok, depth, args, stk) ==
    IF tok
    THEN Output(fatalLog, depth, Sprint(args), Here(591), stk)
    ELSE <<>>

VerboseFatalln(tok, args, stk) ==
    IF tok
    THEN Output(fatalLog, CallDepth + 1, Sprintln(args), Here(599), stk)
    ELSE <<>>

VerboseFatalf(tok, format, args, stk) ==
    IF tok
    THEN LET buf == Sprintf(format, args)
         IN  IF buf = "" THEN EmptyBuffer
             ELSE Output(fatalLog, CallDepth + 1, WithNewline(buf), Here(612), stk)
    ELSE <<>>

VerboseExit(tok, args, stk) ==
    IF tok
    THEN Then(Output(fatalLog, CallDepth + 1, Sprint(args), Here(620), stk), <<EvExit(1)>>)
    ELSE <<>>

VerboseExitDepth(tok, depth, args, stk) ==
    IF tok
    THEN Then(Output(fatalLog, depth, Sprint(args), Here(629), stk), <<EvExit(1)>>)
    ELSE <<>>

VerboseExitln(tok, args, stk) ==
    IF tok
    THEN Then(Output(fatalLog, CallDepth + 1, Sprintln(args), Here(638), stk), <<EvExit(1)>>)
    ELSE <<>>

VerboseExitf(tok, format, args, stk) ==
    IF tok
    THEN LET buf == Sprintf(format, args)
         IN  IF buf = "" THEN EmptyBuffer
             ELSE Then(Output(fatalLog, CallDepth + 1, WithNewline(buf), Here(652), stk), <<EvExit(1)>>)
    ELSE <<>>

(***************************************************************************)
(* Configuration.                                                          *)
(***************************************************************************)
\* A variant of setupLogger that builds the ERROR logger over the handle of
\* the WARNING logger.
setupLogger_Swapped(traceHandle, infoHandle, warningHandle, errorHandle, fatalHandle) ==
    /\ traceLog' = LogNew(LogFilter(traceHandle, TRACE)', "TRACE: ")
    /\ infoLog' = LogNew(LogFilter(infoHandle, INFO)', "INFO: ")
    /\ warningLog' = LogNew(LogFilter(warningHandle, WARNING)', "WARNING: ")
    /\ errorLog' = LogNew(LogFilter(warningHandle, ERROR)', "ERROR: ")
    /\ fatalLog' = LogNew(LogFilter(fatalHandle, FATAL)', "Fatal: ")

\* A variant of setupLogger that leaves the TRACE logger as it was.
setupLogger_KeepsTrace(traceHandle, infoHandle, warningHandle, errorHandle, fatalHandle) ==
    /\ traceLog' = traceLog
    /\ infoLog' = LogNew(LogFilter(infoHandle, INFO)', "INFO: ")
    /\ warningLog' = LogNew(LogFilter(warningHandle, WARNING)', "WARNING: ")
    /\ errorLog' = LogNew(LogFilter(errorHandle, ERROR)', "ERROR: ")
    /\ fatalLog' = LogNew(LogFilter(fatalHandle, FATAL)', "Fatal: ")

\* setupLogger reads Format (through LogFilter) as its caller has just set it.
setupLogger(traceHandle, infoHandle, warningHandle, errorHandle, fatalHandle) ==
    /\ traceLog' = LogNew(LogFilter(traceHandle, TRACE)', "TRACE: ")
    /\ infoLog' = LogNew(LogFilter(infoHandle, INFO)', "INFO: ")
    /\ warningLog' = LogNew(LogFilter(warningHandle, WARNING)', "WARNING: ")
    /\ errorLog' = LogNew(LogFilter(errorHandle, ERROR)', "ERROR: ")
    /\ fatalLog' = LogNew(LogFilter(fatalHandle, FATAL)', "Fatal: ")

\* The record of a call: the function, the receiver (TRUE for a package
\* function), the inputs, and the events in order.
Record(fn, tok, format, args, depth, stk, events) ==
    [fn |-> fn, tok |-> tok, format |-> format, args |-> args,
     depth |-> depth, stk |-> stk, events |-> events]

NoCall == Record("", TRUE, "", <<>>, 0, <<>>, <<>>)

\* `last` is a history variable: it holds the record of one operation until
\* Forget discards it, and the next operation is recorded only then.
Idle == last = NoCall

Forget ==
    /\ ~Idle
    /\ last' = NoCall
    /\ UNCHANGED <<proc, exitStatus, config, loggers, sink, v, world, conc>>

Goroutines == {1, 2}

\* A goroutine that is not in a log call.
Resting == [pc |-> "rest", fn |-> "", l |-> NilLogger, id |-> <<"", 0>>, w |-> <<>>]

Init ==
    /\ proc = "boot"
    /\ exitStatus = 0
    /\ LogLevel = 0
    /\ Format = DefaultFormat
    /\ colorFormating = NoColor
    /\ traceLog = NilLogger
    /\ infoLog = NilLogger
    /\ warningLog = NilLogger
    /\ errorLog = NilLogger
    /\ fatalLog = NilLogger
    /\ sink = [kind |-> "nil", out |-> "Discard", logType |-> TRACE, made |-> DefaultFormat]
    /\ v = FALSE
    /\ last = NoCall
    /\ failing = {}
    /\ logFile = ""
    /\ gor = [g \in Goroutines |-> Resting]
    /\ gen = 0

\* The values LOG_LEVEL takes in the environment ("" is unset).
EnvValues == {"", "-1", "x", "1x"} \cup {ToString(n) : n \in 0..MaxLevel}

RuntimeFrame == [file |-> "/go/src/runtime/proc.go", line |-> 250]

\* The call stacks the package is called from: the call site first.
Stacks ==
    { <<[file |-> "/src/app/main.go", line |-> 12], RuntimeFrame>>,
      <<[file |-> "/src/app/db/conn.go", line |-> 40],
        [file |-> "/src/app/main.go", line |-> 17], RuntimeFrame>> }

\* The operands the severity functions are called with.
Args == { <<"up">>, <<"a", "b c">>, <<"ok\n">>, <<"x  y">>, <<>> }

\* The format and operands the f functions are called with.
FmtCalls ==
    { [format |-> "", args |-> <<>>],
      [format |-> "%s", args |-> <<"up">>],
      [format |-> "n=%s\n", args |-> <<"1">>] }

Depths == 0..MaxDepth

\* func init(): the stack of its call of Error
InitStack == <<Here(293), RuntimeFrame>>

PackageInit ==
    /\ proc = "boot"
    /\ Idle
    /\ \E getLogLevel \in EnvValues :
         LET conv == Atoi(getLogLevel)
             bad == Len(getLogLevel) # 0 /\ conv.err
             said == IF bad
                     THEN Error(<<"reading loglevel from envieronment variable, falling back to default level 0">>, InitStack)
                     ELSE <<>>
         IN  /\ last' = Record("init", TRUE, "", <<getLogLevel>>, 0, InitStack, said)
             /\ IF Panicked(said)
                THEN /\ LogLevel' = conv.n
                     /\ proc' = "panicked"
                     /\ exitStatus' = 2
                     /\ UNCHANGED <<Format, loggers>>
                ELSE /\ LogLevel' = IF Len(getLogLevel) = 0 \/ conv.err THEN 0 ELSE conv.n
                     /\ Format' = DefaultFormat
                     /\ setupLogger("Discard", "Stdout", "Stdout", "Stderr", "Stderr")
                     /\ proc' = "run"
                     /\ UNCHANGED exitStatus
    /\ UNCHANGED <<colorFormating, sink, v, world, conc>>

\* LogLevel is an exported variable: the caller assigns it.
SetLogLevel ==
    /\ proc = "run"
    /\ Idle
    /\ \E level \in 0..MaxLevel :
         /\ LogLevel' = level
         /\ last' = Record("LogLevel=", TRUE, "", <<>>, level, <<>>, <<>>)
    /\ UNCHANGED <<proc, exitStatus, Format, colorFormating, loggers, sink, v, world, conc>>

\* SetFormat takes any formatType, also one that is no declared constant.
Formats == {DefaultFormat, ModernFormat, ModernFormat + 1}

SetFormat ==
    /\ proc = "run"
    /\ Idle
    /\ \E format \in Formats :
         /\ Format' = format
         /\ setupLogger("Discard", "Stdout", "Stdout", "Stderr", "Stderr")
         /\ last' = Record("SetFormat", TRUE, "", <<>>, format, <<>>, <<>>)
    /\ UNCHANGED <<proc, exitStatus, LogLevel, colorFormating, sink, v, world, conc>>

ColorFormats == NoColor..FullColorWithBoldPrefix

SetColors ==
    /\ proc = "run"
    /\ Idle
    /\ \E cformat \in ColorFormats :
         /\ colorFormating' = cformat
         /\ last' = Record("SetColors", TRUE, "", <<>>, cformat, <<>>, <<>>)
    /\ UNCHANGED <<proc, exitStatus, LogLevel, Format, loggers, sink, v, world, conc>>

(***************************************************************************)
(* Calls. A call ends by returning, by os.Exit or by a panic; a panic the  *)
(* caller does not recover ends the process with status 2.                 *)
(***************************************************************************)
EvReturn == [ev |-> "return", at |-> "caller", data |-> ""]

Exited(events) == events # <<>> /\ events[Len(events)].ev = "exit"

Run(events) ==
    IF Panicked(events) \/ Exited(events) THEN events ELSE events \o <<EvReturn>>

Call(fn, tok, format, args, depth, stk, events) ==
    /\ proc = "run"
    /\ Idle
    /\ last' = Record(fn, tok, format, args, depth, stk, Run(events))
    /\ IF Exited(events)
       THEN proc' = "exited" /\ exitStatus' = 1
       ELSE IF Panicked(events)
            THEN \/ proc' = "panicked" /\ exitStatus' = 2
                 \/ UNCHANGED <<proc, exitStatus>>
            ELSE UNCHANGED <<proc, exitStatus>>
    /\ UNCHANGED <<config, loggers, sink, v, world, conc>>

CallV ==
    /\ proc = "run"
    /\ Idle
    /\ \E level \in 0..(MaxLevel + 1) :
         /\ v' = V(level)
         /\ last' = Record("V", TRUE, "", <<>>, level, <<>>, <<EvReturn>>)
    /\ UNCHANGED <<proc, exitStatus, config, loggers, sink, world, conc>>

CallInfo ==
    \E args \in Args, stk \in Stacks :
        Call("Info", TRUE, "", args, CallDepth, stk, Info(args, stk))

CallInfoDepth ==
    \E depth \in Depths, args \in Args, stk \in Stacks :
        Call("InfoDepth", TRUE, "", args, depth, stk, InfoDepth(depth, args, stk))

CallInfoln ==
    \E args \in Args, stk \in Stacks :
        Call("Infoln", TRUE, "", args, CallDepth, stk, Infoln(args, stk))

CallInfof ==
    \E c \in FmtCalls, stk \in Stacks :
        Call("Infof", TRUE, c.format, c.args, CallDepth, stk, Infof(c.format, c.args, stk))

CallWarning ==
    \E args \in Args, stk \in Stacks :
        Call("Warning", TRUE, "", args, CallDepth, stk, Warning(args, stk))

CallWarningDepth ==
    \E depth \in Depths, args \in Args, stk \in Stacks :
        Call("WarningDepth", TRUE, "", args, depth, stk, WarningDepth(depth, args, stk))

CallWarningln ==
    \E args \in Args, stk \in Stacks :
        Call("Warningln", TRUE, "", args, CallDepth, stk, Warningln(args, stk))

CallWarningf ==
    \E c \in FmtCalls, stk \in Stacks :
        Call("Warningf", TRUE, c.format, c.args, CallDepth, stk, Warningf(c.format, c.args, stk))

CallError ==
    \E args \in Args, stk \in Stacks :
        Call("Error", TRUE, "", args, CallDepth, stk, Error(args, stk))

CallErrorDepth ==
    \E depth \in Depths, args \in Args, stk \in Stacks :
        Call("ErrorDepth", TRUE, "", args, depth, stk, ErrorDepth(depth, args, stk))

CallErrorln ==
    \E args \in Args, stk \in Stacks :
        Call("Errorln", TRUE, "", args, CallDepth, stk, Errorln(args, stk))

CallErrorf ==
    \E c \in FmtCalls, stk \in Stacks :
        Call("Errorf", TRUE, c.format, c.args, CallDepth, stk, Errorf(c.format, c.args, stk))

CallFatal ==
    \E args \in Args, stk \in Stacks :
        Call("Fatal", TRUE, "", args, CallDepth, stk, Fatal(args, stk))

CallFatalDepth ==
    \E depth \in Depths, args \in Args, stk \in Stacks :
        Call("FatalDepth", TRUE, "", args, depth, stk, FatalDepth(depth, args, stk))

CallFatalln ==
    \E args \in Args, stk \in Stacks :
        Call("Fatalln", TRUE, "", args, CallDepth, stk, Fatalln(args, stk))

CallFatalf ==
    \E c \in FmtCalls, stk \in Stacks :
        Call("Fatalf", TRUE, c.format, c.args, CallDepth, stk, Fatalf(c.format, c.args, stk))

CallExit ==
    \E args \in Args, stk \in Stacks :
        Call("Exit", TRUE, "", args, CallDepth, stk, Exit(args, stk))

CallExitDepth ==
    \E depth \in Depths, args \in Args, stk \in Stacks :
        Call("ExitDepth", TRUE, "", args, depth, stk, ExitDepth(depth, args, stk))

CallExitln ==
    \E args \in Args, stk \in Stacks :
        Call("Exitln", TRUE, "", args, CallDepth, stk, Exitln(args, stk))

CallExitf ==
    \E c \in FmtCalls, stk \in Stacks :
        Call("Exitf", TRUE, c.format, c.args, CallDepth, stk, Exitf(c.format, c.args, stk))

CallVerboseInfo ==
    \E args \in Args, stk \in Stacks :
        Call("Verbose.Info", v, "", args, CallDepth + 1, stk, VerboseInfo(v, args, stk))

CallVerboseInfoDepth ==
    \E depth \in Depths, args \in Args, stk \in Stacks :
        Call("Verbose.InfoDepth", v, "", args, depth, stk, VerboseInfoDepth(v, depth, args, stk))

CallVerboseInfoln ==
    \E args \in Args, stk \in Stacks :
        Call("Verbose.Infoln", v, "", args, CallDepth + 1, stk, VerboseInfoln(v, args, stk))

CallVerboseInfof ==
    \E c \in FmtCalls, stk \in Stacks :
        Call("Verbose.Infof", v, c.format, c.args, CallDepth + 1, stk, VerboseInfof(v, c.format, c.args, stk))

CallVerboseWarning ==
    \E args \in Args, stk \in Stacks :
        Call("Verbose.Warning", v, "", args, CallDepth + 1, stk, VerboseWarning(v, args, stk))

CallVerboseWarningDepth ==
    \E depth \in Depths, args \in Args, stk \in Stacks :
        Call("Verbose.WarningDepth", v, "", args, depth, stk, VerboseWarningDepth(v, depth, args, stk))

CallVerboseWarningln ==
    \E args \in Args, stk \in Stacks :
        Call("Verbose.Warningln", v, "", args, CallDepth + 1, stk, VerboseWarningln(v, args, stk))

CallVerboseWarningf ==
    \E c \in FmtCalls, stk \in Stacks :
        Call("Verbose.Warningf", v, c.format, c.args, CallDepth + 1, stk, VerboseWarningf(v, c.format, c.args, stk))

CallVerboseError ==
    \E args \in Args, stk \in Stacks :
        Call("Verbose.Error", v, "", args, CallDepth + 1, stk, VerboseError(v, args, stk))

CallVerboseErrorDepth ==
    \E depth \in Depths, args \in Args, stk \in Stacks :
        Call("Verbose.ErrorDepth", v, "", args, depth, stk, VerboseErrorDepth(v, depth, args, stk))

CallVerboseErrorln ==
    \E args \in Args, stk \in Stacks :
        Call("Verbose.Errorln", v, "", args, CallDepth + 1, stk, VerboseErrorln(v, args, stk))

CallVerboseErrorf ==
    \E c \in FmtCalls, stk \in Stacks :
        Call("Verbose.Errorf", v, c.format, c.args, CallDepth + 1, stk, VerboseErrorf(v, c.format, c.args, stk))

CallVerboseFatal ==
    \E args \in Args, stk \in Stacks :
        Call("Verbose.Fatal", v, "", args, CallDepth + 1, stk, VerboseFatal(v, args, stk))

CallVerboseFatalDepth ==
    \E depth \in Depths, args \in Args, stk \in Stacks :
        Call("Verbose.FatalDepth", v, "", args, depth, stk, VerboseFatalDepth(v, depth, args, stk))

CallVerboseFatalln ==
    \E args \in Args, stk \in Stacks :
        Call("Verbose.Fatalln", v, "", args, CallDepth + 1, stk, VerboseFatalln(v, args, stk))

CallVerboseFatalf ==
    \E c \in FmtCalls, stk \in Stacks :
        Call("Verbose.Fatalf", v, c.format, c.args, CallDepth + 1, stk, VerboseFatalf(v, c.format, c.args, stk))

CallVerboseExit ==
    \E args \in Args, stk \in Stacks :
        Call("Verbose.Exit", v, "", args, CallDepth + 1, stk, VerboseExit(v, args, stk))

CallVerboseExitDepth ==
    \E depth \in Depths, args \in Args, stk \in Stacks :
        Call("Verbose.ExitDepth", v, "", args, depth, stk, VerboseExitDepth(v, depth, args, stk))

CallVerboseExitln ==
    \E args \in Args, stk \in Stacks :
        Call("Verbose.Exitln", v, "", args, CallDepth + 1, stk, VerboseExitln(v, args, stk))

CallVerboseExitf ==
    \E c \in FmtCalls, stk \in Stacks :
        Call("Verbose.Exitf", v, c.format, c.args, CallDepth + 1, stk, VerboseExitf(v, c.format, c.args, stk))

(***************************************************************************)
(* A sink of the caller's own: LogFilter is exported, and the caller keeps *)
(* the io.Writer it returns and writes lines to it, as a log.Logger built  *)
(* over it would.                                                          *)
(***************************************************************************)
LogTypes == {TRACE, INFO, WARNING, ERROR, FATAL}

\* `made` remembers the Format under which the sink was constructed.
CallLogFilter ==
    /\ proc = "run"
    /\ Idle
    /\ \E ltype \in LogTypes :
         /\ sink' = [kind |-> LogFilter("w", ltype).kind,
                     out |-> LogFilter("w", ltype).out,
                     logType |-> ltype,
                     made |-> Format]
         /\ last' = Record("LogFilter", TRUE, "", <<>>, ltype, <<>>, <<EvReturn>>)
    /\ UNCHANGED <<proc, exitStatus, config, loggers, v, world, conc>>

\* Raw lines as a standard logger with the flags of setupLogger composes them.
RawLines ==
    { "ERROR: 2024/01/01 00:00:00 /src/lib/x.go:7: disk full\n",
      "INFO: 2024/01/01 00:00:00 /src/app/main.go:12: up\n",
      "TRACE: 2024/01/01 00:00:00 /src/lib/x.go:3: enter  f\n" }

CallWrite ==
    /\ sink.kind # "nil"
    /\ \E bytes \in RawLines :
         Call("Write", TRUE, "", <<bytes>>, Format, <<>>, SinkWrite(sink, bytes))

Next ==
    \/ Forget
    \/ PackageInit
    \/ SetLogLevel
    \/ SetFormat
    \/ CallV
    \/ CallInfo \/ CallInfoDepth \/ CallInfoln \/ CallInfof
    \/ CallWarning \/ CallWarningDepth \/ CallWarningln \/ CallWarningf
    \/ CallError \/ CallErrorDepth \/ CallErrorln \/ CallErrorf
    \/ CallFatal \/ CallFatalDepth \/ CallFatalln \/ CallFatalf
    \/ CallExit \/ CallExitDepth \/ CallExitln \/ CallExitf
    \/ CallVerboseInfo \/ CallVerboseInfoDepth \/ CallVerboseInfoln \/ CallVerboseInfof
    \/ CallVerboseWarning \/ CallVerboseWarningDepth \/ CallVerboseWarningln \/ CallVerboseWarningf
    \/ CallVerboseError \/ CallVerboseErrorDepth \/ CallVerboseErrorln \/ CallVerboseErrorf
    \/ CallVerboseFatal \/ CallVerboseFatalDepth \/ CallVerboseFatalln \/ CallVerboseFatalf
    \/ CallVerboseExit \/ CallVerboseExitDepth \/ CallVerboseExitln \/ CallVerboseExitf

Spec == Init /\ [][Next]_vars


\* The destinations a Write can fail on: the caller's writer and the
\* standard output.
Closable == {"w", "Stdout"}

\* A destination starts to fail: from now on its Write returns an error.
Close ==
    /\ proc = "run"
    /\ Idle
    /\ \E dest \in Closable \ failing :
         /\ failing' = failing \cup {dest}
         /\ last' = Record("Close", TRUE, "", <<dest>>, 0, <<>>, <<>>)
    /\ UNCHANGED <<proc, exitStatus, config, loggers, sink, v, logFile, conc>>

NextSink ==
    \/ Forget
    \/ Close
    \/ PackageInit
    \/ SetFormat
    \/ CallLogFilter
    \/ CallWrite
    \/ CallInfo \/ CallWarningln \/ CallErrorf \/ CallFatalDepth

SpecSink == Init /\ [][NextSink]_vars

\* The writers the caller hands to LogFile.
Files == {"w", "f"}

\* func LogFile(file io.Writer): "sets the logfile to write to". The five
\* loggers are rebuilt over the writer, in the current layout.
LogFile(file) == setupLogger(file, file, file, file, file)

CallLogFile ==
    /\ proc = "run"
    /\ Idle
    /\ UNCHANGED <<proc, exitStatus, config, sink, v, failing, conc>>
    /\ \E file \in Files :
         /\ LogFile(file)
         /\ logFile' = file
         /\ last' = Record("LogFile", TRUE, "", <<file>>, 0, <<>>, <<EvReturn>>)

\* Logging to a file: the functions the package's test calls.
NextFile ==
    \/ Forget
    \/ PackageInit
    \/ SetFormat
    \/ CallLogFile
    \/ CallInfo \/ CallInfoln
    \/ CallWarning \/ CallWarningln
    \/ CallError \/ CallErrorln

SpecFile == Init /\ [][NextFile]_vars

(***************************************************************************)
(* Goroutines that log concurrently. A call of Info, Warning or Error      *)
(* loads the package's logger and calls its Output, which takes the mutex  *)
(* of that logger, composes the line, calls Write on the logger's sink     *)
(* (which calls Write on the destination) and releases the mutex when the  *)
(* Write has returned. Each log.Logger has a mutex of its own; the package *)
(* has none.                                                               *)
(***************************************************************************)
GoFns == {"Info", "Warning", "Error"}

\* The logger the function loads and the line of its call of Output.
GoLogger(fn) ==
    CASE fn = "Info" -> infoLog
      [] fn = "Warning" -> warningLog
      [] fn = "Error" -> errorLog

GoLine(fn) ==
    CASE fn = "Info" -> 306
      [] fn = "Warning" -> 336
      [] fn = "Error" -> 360

GoStack == <<[file |-> "/src/app/main.go", line |-> 12], RuntimeFrame>>

\* A variant of the mutex that never holds anyone back.
MutexHeld_Never(id, g) == FALSE

\* l.mu is held by a goroutine other than g: one that has locked the logger
\* object id and whose Write has not returned.
MutexHeld(id, g) ==
    \E h \in Goroutines \ {g} :
        gor[h].id = id /\ gor[h].pc \in {"locked", "writing"}

\* g calls a function of the package, which loads its logger: the object
\* that the latest setupLogger allocated.
GoCall(g) ==
    /\ proc = "run"
    /\ gor[g].pc = "rest"
    /\ \E fn \in GoFns :
         gor' = [gor EXCEPT ![g] = [pc |-> "called", fn |-> fn, l |-> GoLogger(fn),
                                     id |-> <<fn, gen>>, w |-> <<>>]]
    /\ UNCHANGED <<proc, exitStatus, config, loggers, sink, v, last, world, gen>>

\* l.mu.Lock()
GoLock(g) ==
    /\ gor[g].pc = "called"
    /\ ~MutexHeld(gor[g].id, g)
    /\ gor' = [gor EXCEPT ![g].pc = "locked"]
    /\ UNCHANGED <<proc, exitStatus, config, loggers, sink, v, last, world, gen>>

\* What g's call of Output writes on the destination, the colour scheme
\* read as it is now.
GoLines(g) ==
    SelectSeq(Output(gor[g].l, CallDepth, Sprint(<<"up">>),
                     Here(GoLine(gor[g].fn)), GoStack),
              LAMBDA e : e.ev = "write")

\* A variant of the Write that reads the colour scheme a second time after
\* the prefix is coloured, and finds the full scheme there: the reset of the
\* full scheme is appended to a line decorated by the prefix scheme.
GoWrite_TwoReads(g) ==
    /\ gor[g].pc = "locked"
    /\ gor' = [gor EXCEPT ![g].pc = "writing",
                          ![g].w = [i \in DOMAIN GoLines(g) |->
                                      IF colorFormating = PrefixBoldColor
                                      THEN [GoLines(g)[i] EXCEPT !.data = @ \o " " \o Reset]
                                      ELSE GoLines(g)[i]]]
    /\ UNCHANGED <<proc, exitStatus, config, loggers, sink, v, last, world, gen>>

\* l.out.Write(l.buf): the sink lays the line out and calls Write on the
\* destination; the call is in progress until GoDone.
GoWrite(g) ==
    /\ gor[g].pc = "locked"
    /\ gor' = [gor EXCEPT ![g].pc = "writing",
                          ![g].w = GoLines(g)]
    /\ UNCHANGED <<proc, exitStatus, config, loggers, sink, v, last, world, gen>>

\* The Write returns, Output releases the mutex and the call returns.
GoDone(g) ==
    /\ gor[g].pc = "writing"
    /\ gor' = [gor EXCEPT ![g] = Resting]
    /\ UNCHANGED <<proc, exitStatus, config, loggers, sink, v, last, world, gen>>

\* SetFormat called while the goroutines log: five new logger objects.
GoSetFormat ==
    /\ proc = "run"
    /\ gen < MaxGen
    /\ \E format \in {DefaultFormat, ModernFormat} :
         /\ Format' = format
         /\ setupLogger("Discard", "Stdout", "Stdout", "Stderr", "Stderr")
    /\ gen' = gen + 1
    /\ UNCHANGED <<proc, exitStatus, LogLevel, colorFormating, sink, v, last, world, gor>>

NextConc ==
    \/ Forget
    \/ PackageInit
    \/ GoSetFormat
    \/ \E g \in Goroutines : GoCall(g)
    \/ \E g \in Goroutines : GoLock(g)
    \/ \E g \in Goroutines : GoWrite(g)
    \/ \E g \in Goroutines : GoDone(g)

SpecConc == Init /\ [][NextConc]_vars

\* The schemes set while the goroutines log: none, one that colours the
\* prefix, and one that colours the prefix and the message differently.
RaceColors == {NoColor, PrefixBoldColor, FullColorWithBoldMessage}

\* SetColors called while the goroutines log: colorFormating is assigned
\* under no lock, and the switch of addColor reads it under none. The read
\* is of one word: it yields the value before or the value after.
GoSetColors ==
    /\ proc = "run"
    /\ \E cformat \in RaceColors : colorFormating' = cformat
    /\ UNCHANGED <<proc, exitStatus, LogLevel, Format, loggers, sink, v, last, world, conc>>

\* Logging while the layout and the colour scheme are changed.
NextRace ==
    \/ PackageInit
    \/ GoSetFormat
    \/ GoSetColors
    \/ \E g \in Goroutines : GoCall(g)
    \/ \E g \in Goroutines : GoLock(g)
    \/ \E g \in Goroutines : GoWrite(g)
    \/ \E g \in Goroutines : GoDone(g)

SpecRace == Init /\ [][NextRace]_vars

\* The colour schemes over both layouts: lines logged by the package and
\* lines written to a sink of the caller's.
NextColor ==
    \/ Forget
    \/ PackageInit
    \/ SetFormat
    \/ SetColors
    \/ CallLogFilter
    \/ CallWrite
    \/ CallInfo \/ CallWarningln \/ CallErrorf \/ CallFatalDepth

SpecColor == Init /\ [][NextColor]_vars

(***************************************************************************)
(* Lines of any shape. Write is a method of an io.Writer: the caller of    *)
(* LogFilter can hand it any bytes, and a sink can be handed the line that *)
(* a sink produced (a sink built over a sink, or a line logged again).     *)
(***************************************************************************)
\* How often a line a sink wrote is fed to the sink again.
MaxFeeds == 2

\* The bytes written to a sink: the lines of a standard logger, lines of
\* fewer than four fields, and lines whose fields are not those of a logger.
Lines ==
    RawLines \cup
    { "", "\n", "up\n", "INFO: up\n", "a b c\n", "a b c d\n",
      "INFO: 2024/01/01 00:00:00 /x.go:3: up\n" }

CallWriteLine ==
    /\ sink.kind # "nil"
    /\ \E bytes \in Lines :
         Call("Write", TRUE, "", <<bytes>>, Format, <<>>, SinkWrite(sink, bytes))

RECURSIVE Refeed(_, _, _)
\* m.Write(bytes), and the line it wrote handed to m.Write again, k times
\* over; a Write that panics ends the chain.
Refeed(m, bytes, k) ==
    LET first == modernLoggerWrite(m, bytes)
        wrote == SelectSeq(first, LAMBDA e : e.ev = "write")
    IN  IF k = 0 \/ wrote = <<>>
        THEN first
        ELSE first \o Refeed(m, wrote[1].data, k - 1)

CallRefeed ==
    /\ sink.kind = "modernLogger"
    /\ \E bytes \in RawLines, k \in 1..MaxFeeds :
         Call("Refeed", TRUE, "", <<bytes>>, k, <<>>, Refeed(sink, bytes, k))

NextLine ==
    \/ Forget
    \/ PackageInit
    \/ SetFormat
    \/ SetColors
    \/ CallLogFilter
    \/ CallWriteLine
    \/ CallRefeed

SpecLine == Init /\ [][NextLine]_vars

(***************************************************************************)
(* The claims. Each is read off `last`, the record of the operation that   *)
(* has just completed, and the state it left.                              *)
(***************************************************************************)
Kind(events, kind) == SelectSeq(events, LAMBDA e : e.ev = kind)

SinkOf(events) == Kind(events, "sink")

WritesOf(events) == Kind(events, "write")

\* What the caller and the destinations see of a call: all but the hand-over
\* of the raw line to the sink.
Seen(events) == SelectSeq(events, LAMBDA e : e.ev # "sink")

Severities == {"Info", "Warning", "Error", "Fatal", "Exit"}

PlainFns == {s \o f : s \in Severities, f \in {"", "ln", "f"}}
DepthFns == {s \o "Depth" : s \in Severities}
FatalFns == {"Fatal", "FatalDepth", "Fatalln", "Fatalf"}
ExitFns == {"Exit", "ExitDepth", "Exitln", "Exitf"}
VerboseFns == {"Verbose." \o f : f \in PlainFns \cup DepthFns}
LogFns == PlainFns \cup DepthFns \cup VerboseFns

\* The call-site token of a raw line, and the token that names a frame.
LocationIn(raw) == FieldsFunc(raw, {" "})[4]
FrameToken(frame) == frame.file \o ":" \o ToString(frame.line) \o ":"

\* C1: every Fatal-family call hands its line to the FATAL logger and then
\* terminates the process with status 1, exactly once and after the write;
\* no Fatal-family call returns to its caller.
C1_FatalTerminates ==
    last.fn \in FatalFns =>
        /\ Len(SinkOf(last.events)) = 1
        /\ last.events[1].ev = "sink" /\ last.events[1].at = "Fatal: "
        /\ Len(Kind(last.events, "exit")) = 1
        /\ Exited(last.events)
        /\ last.events[Len(last.events)].data = "1"
        /\ Kind(last.events, "return") = <<>>
        /\ proc = "exited" /\ exitStatus = 1

\* The Fatal-family call that corresponds to an Exit-family call.
FatalOf(call) ==
    CASE call.fn = "Exit" -> Fatal(call.args, call.stk)
      [] call.fn = "ExitDepth" -> FatalDepth(call.depth, call.args, call.stk)
      [] call.fn = "Exitln" -> Fatalln(call.args, call.stk)
      [] call.fn = "Exitf" -> Fatalf(call.format, call.args, call.stk)

\* C2: every Exit-family call performs exactly one write of its line to the
\* FATAL logger's sink and then terminates the process with status 1, never
\* before that write has returned, and behaves as the corresponding
\* Fatal-family call does.
C2_ExitLikeFatal ==
    last.fn \in ExitFns =>
        /\ Len(SinkOf(last.events)) = 1
        /\ last.events[1].ev = "sink" /\ last.events[1].at = "Fatal: "
        /\ Exited(last.events)
        /\ last.events[Len(last.events)].data = "1"
        /\ proc = "exited" /\ exitStatus = 1
        /\ last.events = Run(FatalOf(last))

\* C3: Exit, Exitln and Exitf write the line to the FATAL, ERROR, WARNING and
\* INFO logs, all four, before calling os.Exit(1).
C3_ExitWritesAllFour ==
    (last.fn \in {"Exit", "Exitln", "Exitf"} /\ Exited(last.events)) =>
        \A prefix \in {"Fatal: ", "ERROR: ", "WARNING: ", "INFO: "} :
            \E i \in DOMAIN last.events :
                last.events[i].ev = "sink" /\ last.events[i].at = prefix

\* C4: V(level) returns an active token if and only if LogLevel, as it is at
\* the moment of the call, is >= level.
C4_VActiveIffLevel ==
    last.fn = "V" => (v <=> LogLevel >= last.depth)

\* With LogLevel = 2 overriding the start-up value, V(3) has been asked and
\* is inactive.
C4_Witness ==
    /\ last.fn = "V"
    /\ LogLevel = 2
    /\ last.depth = 3
    /\ ~v

\* The package function of the same name as a method of the token.
GlobalOf(call) ==
    CASE call.fn = "Verbose.Info" -> Info(call.args, call.stk)
      [] call.fn = "Verbose.InfoDepth" -> InfoDepth(call.depth, call.args, call.stk)
      [] call.fn = "Verbose.Infoln" -> Infoln(call.args, call.stk)
      [] call.fn = "Verbose.Infof" -> Infof(call.format, call.args, call.stk)
      [] call.fn = "Verbose.Warning" -> Warning(call.args, call.stk)
      [] call.fn = "Verbose.WarningDepth" -> WarningDepth(call.depth, call.args, call.stk)
      [] call.fn = "Verbose.Warningln" -> Warningln(call.args, call.stk)
      [] call.fn = "Verbose.Warningf" -> Warningf(call.format, call.args, call.stk)
      [] call.fn = "Verbose.Error" -> Error(call.args, call.stk)
      [] call.fn = "Verbose.ErrorDepth" -> ErrorDepth(call.depth, call.args, call.stk)
      [] call.fn = "Verbose.Errorln" -> Errorln(call.args, call.stk)
      [] call.fn = "Verbose.Errorf" -> Errorf(call.format, call.args, call.stk)
      [] call.fn = "Verbose.Fatal" -> Fatal(call.args, call.stk)
      [] call.fn = "Verbose.FatalDepth" -> FatalDepth(call.depth, call.args, call.stk)
      [] call.fn = "Verbose.Fatalln" -> Fatalln(call.args, call.stk)
      [] call.fn = "Verbose.Fatalf" -> Fatalf(call.format, call.args, call.stk)
      [] call.fn = "Verbose.Exit" -> Exit(call.args, call.stk)
      [] call.fn = "Verbose.ExitDepth" -> ExitDepth(call.depth, call.args, call.stk)
      [] call.fn = "Verbose.Exitln" -> Exitln(call.args, call.stk)
      [] call.fn = "Verbose.Exitf" -> Exitf(call.format, call.args, call.stk)

\* C5: every method of the token is guarded: on an inactive token it writes
\* to no sink and never terminates the process; on an active token it
\* performs the same write, and for Exit* the same termination, as the
\* package function of the same name.
C5_VerboseGuarded ==
    last.fn \in VerboseFns =>
        IF last.tok
        THEN Seen(last.events) = Seen(Run(GlobalOf(last)))
        ELSE last.events = <<EvReturn>> /\ proc = "run"

\* C6: on an active token each non-Depth method hands the standard logger
\* the depth CallDepth + 1, so that V(n).S(x) reports the call-site location
\* that S(x) reports when called from the same place.
C6_VerboseReportsCallSite ==
    (/\ last.fn \in {"Verbose." \o f : f \in PlainFns}
     /\ last.tok
     /\ SinkOf(last.events) # <<>>) =>
        /\ SinkOf(last.events)[1].depth = CallDepth + 1
        /\ LocationIn(SinkOf(last.events)[1].data) = FrameToken(last.stk[1])
        /\ LocationIn(SinkOf(last.events)[1].data)
             = LocationIn(SinkOf(GlobalOf(last))[1].data)

\* The function S of a function SDepth.
PlainOf(call) ==
    CASE call.fn = "InfoDepth" -> Info(call.args, call.stk)
      [] call.fn = "WarningDepth" -> Warning(call.args, call.stk)
      [] call.fn = "ErrorDepth" -> Error(call.args, call.stk)
      [] call.fn = "FatalDepth" -> Fatal(call.args, call.stk)
      [] call.fn = "ExitDepth" -> Exit(call.args, call.stk)

\* C7: for each severity S, SDepth(0, "msg") is the same as S("msg"): the
\* same line, attributed to the same call-site location, the caller's.
C7_DepthZeroIsPlain ==
    (last.fn \in DepthFns /\ last.depth = 0) =>
        /\ Seen(last.events) = Seen(Run(PlainOf(last)))
        /\ LocationIn(SinkOf(last.events)[1].data) = FrameToken(last.stk[1])

\* C8: when LOG_LEVEL is set and is no integer, initialization completes
\* with LogLevel = 0 after one line through the error or warning logger;
\* nothing is propagated and the five loggers are usable afterwards.
C8_MalformedLevelFallsBack ==
    (last.fn = "init" /\ last.args[1] # "" /\ Atoi(last.args[1]).err) =>
        /\ proc = "run"
        /\ LogLevel = 0
        /\ ~Panicked(last.events)
        /\ Len(SinkOf(last.events)) = 1
        /\ SinkOf(last.events)[1].at \in {"ERROR: ", "WARNING: "}
        /\ \A l \in {traceLog, infoLog, warningLog, errorLog, fatalLog} : ~l.nil

HasTab(s) == \E i \in 1..Len(s) : Ch(s, i) = "\t"

\* The layout of the line a call wrote, told by the tab of the modern
\* layout, and the layout a value of Format stands for.
LayoutOf(events) ==
    IF WritesOf(events) = <<>> THEN "none"
    ELSE IF HasTab(WritesOf(events)[1].data) THEN "modern" ELSE "default"

LayoutFor(format) ==
    CASE format = DefaultFormat -> "default"
      [] format = ModernFormat -> "modern"
      [] OTHER -> "none"

\* C9, as stated: every sink reads the layout mode when a line is written,
\* so that a line written through a sink made before a change of the mode
\* is laid out in the new mode.
C9_LayoutReadAtWrite ==
    (last.fn = "Write" /\ ~Panicked(last.events)) =>
        LayoutOf(last.events) = LayoutFor(Format)

\* C9, amended: the layout mode is read when LogFilter constructs a sink and
\* is fixed for that sink; SetFormat rebuilds the package's loggers, so a
\* line logged through them is laid out in the current mode, and a line
\* written through a sink made before the change in the mode it was made under.
C9_LayoutFixedAtConstruction ==
    /\ (last.fn = "Write" /\ ~Panicked(last.events)) =>
           LayoutOf(last.events) = LayoutFor(sink.made)
    /\ (last.fn \in LogFns /\ SinkOf(last.events) # <<>> /\ ~Panicked(last.events)) =>
           LayoutOf(last.events) = LayoutFor(Format)

\* A line has been written through a sink made under the default layout
\* after the mode was changed to modern, and is laid out by default.
C9_Witness ==
    /\ last.fn = "Write"
    /\ sink.made = DefaultFormat
    /\ Format = ModernFormat
    /\ LayoutOf(last.events) = "default"

\* The last three '/'-or-':'-delimited components of a call-site token, in brackets.
Bracketed(token) ==
    LET c == FieldsFunc(token, {"/", ":"})
        n == Len(c)
    IN  "[" \o c[n - 2] \o "][" \o c[n - 1] \o "][:" \o c[n] \o "]"

\* PREFIX: YYYY/MM/DD HH:MM:SS [packagedir][file.go][:LINE]<TAB>message<NEWLINE>
\* for the raw line a logger of that prefix composed.
ModernLine(prefix, raw) ==
    LET token == LocationIn(raw)
        header == prefix \o Date \o " " \o Time \o " " \o token \o " "
        message == SubSeq(raw, Len(header) + 1, Len(raw))
    IN  prefix \o Date \o " " \o Time \o " " \o Bracketed(token) \o "\t" \o message

\* C10: under the modern layout without colour a logged line reaches the
\* destination as PREFIX: date time [packagedir][file.go][:LINE], a tab, and
\* the message immediately after the tab.
C10_ModernLine ==
    (/\ last.fn \in LogFns
     /\ Format = ModernFormat
     /\ colorFormating = NoColor
     /\ SinkOf(last.events) # <<>>
     /\ Ch(LocationIn(SinkOf(last.events)[1].data), 1) = "/") =>
        /\ Len(WritesOf(last.events)) = 1
        /\ WritesOf(last.events)[1].data
             = ModernLine(SinkOf(last.events)[1].at, SinkOf(last.events)[1].data)

Prefixes == {"TRACE: ", "INFO: ", "WARNING: ", "ERROR: ", "Fatal: "}

StartsWith(s, t) == Len(s) >= Len(t) /\ SubSeq(s, 1, Len(t)) = t

\* The raw line of prefix `prefix` as PREFIX: date time file:LINE: message,
\* the message with every run of spaces taken as one separator.
DefaultLine(prefix, raw) ==
    LET header == prefix \o Date \o " " \o Time \o " " \o LocationIn(raw) \o " "
        message == SubSeq(raw, Len(header) + 1, Len(raw))
    IN  header \o Join(FieldsFunc(message, {" "}), " ")

\* The raw line of the operation just completed and the prefix of its
\* logger: of a severity function what the standard logger composed, of a
\* Write on the caller's sink the bytes written to it.
RawOf(call) ==
    IF call.fn = "Write" THEN call.args[1] ELSE SinkOf(call.events)[1].data

PrefixIn(raw) == FieldsFunc(raw, {" "})[1] \o " "

\* The sink that the operation just completed wrote through is of this kind.
Through(kind) ==
    \/ last.fn = "Write" /\ sink.kind = kind /\ ~Panicked(last.events)
    \/ /\ last.fn \in LogFns
       /\ SinkOf(last.events) # <<>>
       /\ ~Panicked(last.events)
       /\ kind = (CASE Format = DefaultFormat -> "defaultLogger"
                    [] Format = ModernFormat -> "modernLogger"
                    [] OTHER -> "Discard")

RECURSIVE CountCh(_, _)
CountCh(s, c) ==
    IF s = "" THEN 0
    ELSE (IF Ch(s, 1) = c THEN 1 ELSE 0) + CountCh(SubSeq(s, 2, Len(s)), c)

\* The message of a call of S, Sln or Sf as the function formats it.
Formatted(call) ==
    IF call.fn \in {sv \o "ln" : sv \in Severities} THEN Sprintln(call.args)
    ELSE IF call.fn \in {sv \o "f" : sv \in Severities}
         THEN Sprintf(call.format, call.args)
         ELSE Sprint(call.args)

\* A message with one newline added unless it ends in one.
Normalised(m) == IF m # "" /\ LastCh(m) = "\n" THEN m ELSE m \o "\n"

\* C12: for every severity, every form S, Sln and Sf, both layouts and every
\* message, the empty formatted result included, the line that reaches the
\* destination carries exactly one newline after the message: one is added
\* when the formatted message does not end in one and none when it does.
C12_OneNewline ==
    (last.fn \in PlainFns /\ Format \in {DefaultFormat, ModernFormat}) =>
        /\ Len(WritesOf(last.events)) = 1
        /\ LastCh(WritesOf(last.events)[1].data) = "\n"
        /\ CountCh(WritesOf(last.events)[1].data, "\n")
             = CountCh(Normalised(Formatted(last)), "\n")

EndsWith(s, t) == Len(s) >= Len(t) /\ SubSeq(s, Len(s) - Len(t) + 1, Len(s)) = t

HasEsc(s) == \E i \in 1..Len(s) : Ch(s, i) = ESC

\* The severity of the line the operation just completed wrote.
SeverityOf(call) ==
    IF call.fn = "Write" THEN sink.logType
    ELSE CASE SinkOf(call.events)[1].at = "TRACE: " -> TRACE
           [] SinkOf(call.events)[1].at = "INFO: " -> INFO
           [] SinkOf(call.events)[1].at = "WARNING: " -> WARNING
           [] SinkOf(call.events)[1].at = "ERROR: " -> ERROR
           [] SinkOf(call.events)[1].at = "Fatal: " -> FATAL

Layouted == Through("defaultLogger") \/ Through("modernLogger")

\* C13: under PrefixColor and PrefixBoldColor, for every line the loggers
\* produce, the (bold) colour sequence of the severity is the first token and
\* the reset sequence ends the call-site location token, the one after the
\* time: the coloured span runs from the prefix through the line number and
\* no part of the message is coloured.
C13_PrefixSpanEndsAtLocation ==
    (Layouted /\ colorFormating \in {PrefixColor, PrefixBoldColor}) =>
        LET w == WritesOf(last.events)
            toks == FieldsFunc(w[1].data, {" "})
            col == IF colorFormating = PrefixColor
                   THEN colors(SeverityOf(last)) ELSE boldcolors(SeverityOf(last))
        IN  /\ Len(w) = 1
            /\ toks[1] = col
            /\ EndsWith(toks[5], Reset)
            /\ \A i \in DOMAIN toks : i \notin {1, 5} => ~HasEsc(toks[i])

\* C14: under FullColor, in both layouts and for every severity, the line
\* that reaches the destination starts with the non-bold colour sequence of
\* the severity and ends with the reset sequence, each a token of its own
\* with a single space between it and its neighbour.
C14_FullColorFirstAndLast ==
    (Layouted /\ colorFormating = FullColor) =>
        LET w == WritesOf(last.events)
            line == w[1].data
            toks == FieldsFunc(line, {" "})
            col == colors(SeverityOf(last))
        IN  /\ Len(w) = 1
            /\ toks[1] = col
            /\ toks[Len(toks)] = Reset
            /\ StartsWith(line, col \o " ")
            /\ Ch(line, Len(col) + 2) # " "
            /\ EndsWith(line, " " \o Reset)
            /\ Ch(line, Len(line) - Len(Reset) - 1) # " "
            /\ \A i \in 2..(Len(toks) - 1) : ~HasEsc(toks[i])

\* A TRACE line has been written through a modern sink under FullColor.
C14_Witness ==
    /\ last.fn = "Write"
    /\ sink.kind = "modernLogger"
    /\ sink.logType = TRACE
    /\ colorFormating = FullColor
    /\ WritesOf(last.events) # <<>>
    /\ StartsWith(WritesOf(last.events)[1].data, colorSeq(ColorCyan) \o " TRACE: ")

ResultOf(events) == Kind(events, "result")

\* C15: a sink's Write makes exactly one write call on the underlying
\* destination, before it returns, and returns the byte count and the error
\* of that call unchanged: an error of the destination reaches the caller as
\* it is, with no second attempt.
C15_WriteResultForwarded ==
    (last.fn = "Write" /\ sink.kind \in {"defaultLogger", "modernLogger"}
       /\ ~Panicked(last.events)) =>
        LET w == WritesOf(last.events)
        IN  /\ Len(w) = 1
            /\ w[1].at = sink.out
            /\ last.events = <<w[1], EvResult(w[1].n, w[1].err), EvReturn>>
            /\ (sink.out \in failing <=> ResultOf(last.events)[1].data # "nil")

\* A line has been written through a sink whose destination fails, and the
\* Write returned the destination's error after one write call.
C15_Witness ==
    /\ last.fn = "Write"
    /\ sink.kind = "modernLogger"
    /\ sink.out \in failing
    /\ Len(WritesOf(last.events)) = 1
    /\ ResultOf(last.events) = <<EvResult(0, "EBADF")>>

\* C18, as stated: whenever the current layout mode is neither Default nor
\* Modern, a sink discards every line written to it, nothing reaching the
\* destination, and the write reports success.
C18_DiscardsWhileModeUnknown ==
    (last.fn = "Write" /\ Format \notin {DefaultFormat, ModernFormat}) =>
        /\ WritesOf(last.events) = <<>>
        /\ last.events = <<EvResult(Len(last.args[1]), "nil"), EvReturn>>

\* C18, amended: a sink that LogFilter constructed while the layout mode was
\* neither Default nor Modern discards every line written to it and reports
\* success, whatever the mode is when the line is written; the loggers of
\* the package, rebuilt by SetFormat, discard every line logged while the
\* mode is neither, and the call returns normally.
C18_DiscardFixedAtConstruction ==
    /\ (last.fn = "Write" /\ sink.made \notin {DefaultFormat, ModernFormat}) =>
           last.events = <<EvResult(Len(last.args[1]), "nil"), EvReturn>>
    /\ (last.fn \in LogFns /\ SinkOf(last.events) # <<>>
          /\ Format \notin {DefaultFormat, ModernFormat}) =>
           /\ WritesOf(last.events) = <<>>
           /\ ~Panicked(last.events)
           /\ last.fn \notin ExitFns => last.events[Len(last.events)] = EvReturn

\* A line has been written to a sink made while the mode was neither, after
\* the mode was set back to the default layout: it is discarded.
C18_Witness ==
    /\ last.fn = "Write"
    /\ sink.made \notin {DefaultFormat, ModernFormat}
    /\ Format = DefaultFormat
    /\ last.events = <<EvResult(Len(last.args[1]), "nil"), EvReturn>>

\* The destination a logger's sink forwards to.
DestOf(l) == l.out.out

Routing ==
    <<DestOf(traceLog), DestOf(infoLog), DestOf(warningLog),
      DestOf(errorLog), DestOf(fatalLog)>>

DefaultRouting == <<"Discard", "Stdout", "Stdout", "Stderr", "Stderr">>

\* The default destination of the logger of a prefix.
DefaultDest(prefix) ==
    CASE prefix = "TRACE: " -> "Discard"
      [] prefix \in {"INFO: ", "WARNING: "} -> "Stdout"
      [] prefix \in {"ERROR: ", "Fatal: "} -> "Stderr"

\* C16, as stated: after initialization and after any sequence of SetFormat
\* and SetColors calls the five loggers are routed to the default
\* destinations (TRACE discarded, INFO and WARNING to standard output, ERROR
\* and FATAL to standard error), and a call of a severity function writes to
\* the destination of its own logger and to no other.
C16_RoutedToDefaults ==
    proc = "run" =>
        /\ Routing = DefaultRouting
        /\ (last.fn \in LogFns /\ SinkOf(last.events) # <<>>
              /\ ~Panicked(last.events)) =>
               /\ Len(WritesOf(last.events)) = 1
               /\ WritesOf(last.events)[1].at = DefaultDest(SinkOf(last.events)[1].at)

\* C16, amended: that holds while the layout mode is Default or Modern;
\* after SetFormat with any other value all five loggers discard, and a call
\* of a severity function writes nowhere. No call writes to a destination
\* other than that of its own logger.
C16_RoutedByLayout ==
    proc = "run" =>
        /\ Routing = IF Format \in {DefaultFormat, ModernFormat}
                     THEN DefaultRouting
                     ELSE <<"Discard", "Discard", "Discard", "Discard", "Discard">>
        /\ (last.fn \in LogFns /\ SinkOf(last.events) # <<>>
              /\ ~Panicked(last.events)) =>
               IF Format \in {DefaultFormat, ModernFormat}
               THEN /\ Len(WritesOf(last.events)) = 1
                    /\ WritesOf(last.events)[1].at
                         = DefaultDest(SinkOf(last.events)[1].at)
               ELSE WritesOf(last.events) = <<>>

\* After SetFormat(ModernFormat) and SetColors(FullColor), Errorf has
\* written its line to the standard error.
C16_Witness ==
    /\ last.fn = "Errorf"
    /\ Format = ModernFormat
    /\ colorFormating = FullColor
    /\ Len(WritesOf(last.events)) = 1
    /\ WritesOf(last.events)[1].at = "Stderr"

RECURSIVE AfterNth(_, _, _)
\* What follows the k-th occurrence of the character c in s.
AfterNth(s, c, k) ==
    IF k = 0 \/ s = "" THEN s
    ELSE AfterNth(SubSeq(s, 2, Len(s)), c, IF Ch(s, 1) = c THEN k - 1 ELSE k)

\* C17: after LogFile(w) every line logged through Info, Infoln, Warning,
\* Warningln, Error or Errorln is written to w and to no other destination,
\* and under the default layout without colour what follows the fifth ':' of
\* the line is exactly one space, the message and one newline.
C17_LogFileReceivesLines ==
    (/\ logFile # ""
     /\ last.fn \in {"Info", "Infoln", "Warning", "Warningln", "Error", "Errorln"}) =>
        /\ Len(WritesOf(last.events)) = 1
        /\ WritesOf(last.events)[1].at = logFile
        /\ (Format = DefaultFormat /\ colorFormating = NoColor) =>
               AfterNth(WritesOf(last.events)[1].data, ":", 5)
                 = " " \o Normalised(Formatted(last))

\* The write calls in progress of two goroutines on one destination.
Writing(g) == gor[g].pc = "writing" /\ gor[g].w # <<>>

Overlap(g, h) ==
    /\ g # h
    /\ Writing(g) /\ Writing(h)
    /\ gor[g].w[1].at = gor[h].w[1].at

\* Each line is handed to the destination whole in one write call.
HandedWhole(g) ==
    Writing(g) =>
        /\ Len(gor[g].w) = 1
        /\ StartsWith(gor[g].w[1].data, gor[g].l.prefix \o Date)
        /\ EndsWith(gor[g].w[1].data, "up\n")

\* C19, as stated: for any two log calls running concurrently, of the same
\* or of different severities, whose loggers share a destination, the two
\* write calls on that destination never overlap, and each line is handed
\* over whole.
C19_WritesNeverOverlap ==
    \A g, h \in Goroutines :
        /\ ~Overlap(g, h)
        /\ HandedWhole(g)

\* C19, amended: the lock is that of one logger object. Two concurrent calls
\* through the same logger object never overlap their write calls; write
\* calls that overlap on a shared destination come from different logger
\* objects (different severities, or one severity before and after the
\* loggers were rebuilt). Each line is handed over whole.
C19_SerializedPerLogger ==
    \A g, h \in Goroutines :
        /\ Overlap(g, h) => gor[g].id # gor[h].id
        /\ (g # h /\ gor[g].id = gor[h].id) => ~(Writing(g) /\ Writing(h))
        /\ HandedWhole(g)

\* Two goroutines are in Info on the same logger object: the write call of
\* one is in progress and the other waits for the mutex.
C19_Witness ==
    /\ Writing(1)
    /\ gor[2].pc = "called"
    /\ gor[1].id = gor[2].id
    /\ gor[1].fn = "Info"
    /\ MutexHeld(gor[2].id, 2)

\* C20: in the modern layout, for every line the standard logger produces,
\* the only token the sink changes is the call-site location token, the
\* fourth: the severity prefix, the date, the time and every token of the
\* message reach the destination as they are in the raw line.
C20_ModernChangesLocationOnly ==
    (Through("modernLogger") /\ colorFormating = NoColor) =>
        LET rawTokens == FieldsFunc(RawOf(last), {" "})
            w == WritesOf(last.events)
            outTokens == FieldsFunc(w[1].data, {" "})
        IN  /\ Len(w) = 1
            /\ Len(outTokens) = Len(rawTokens)
            /\ \A i \in DOMAIN rawTokens : i # 4 => outTokens[i] = rawTokens[i]

\* The fields of a line and the number of them.
FieldCount(line) == Len(FieldsFunc(line, {" "}))

\* C21: a sink's Write, in either layout and under any colour scheme, fails
\* only if the raw line is empty: for every non-empty raw line, one of fewer
\* than four space-delimited fields included, it completes without an
\* out-of-bounds access and forwards a line to the destination.
C21_FailsOnlyOnEmptyLine ==
    (/\ last.fn = "Write"
     /\ sink.kind \in {"defaultLogger", "modernLogger"}
     /\ last.args[1] # "") =>
        /\ ~Panicked(last.events)
        /\ Len(WritesOf(last.events)) = 1

\* The fourth field of the line is a location as the modern layout writes
\* it: three bracketed components and the tab.
ModernShaped(line) ==
    /\ FieldCount(line) >= 4
    /\ LET token == FieldsFunc(line, {" "})[4]
       IN  /\ Len(token) >= 9
           /\ Ch(token, 1) = "["
           /\ SubSeq(token, Len(token) - 1, Len(token)) = "]\t"
           /\ Len(FieldsFunc(token, {"[", "]"})) = 4

\* C22: a line that a modern sink produced without colour, its location
\* field of the shape [pkg][file][:42], can be fed to a modern sink again
\* without a crash: the Write it is fed to completes and forwards a line.
C22_RefeedCompletes ==
    (last.fn = "Refeed" /\ colorFormating = NoColor) =>
        LET w == WritesOf(last.events)
        IN  \A i \in 1..Len(w) :
                (i <= last.depth /\ ModernShaped(w[i].data)) => Len(w) >= i + 1

\* The tokens decorated according to the scheme c alone.
Decorated(c, lType, prefixEnd, message) ==
    CASE c = PrefixColor ->
           <<colors(lType)>> \o Suffixed(message, prefixEnd, Reset)
      [] c = PrefixBoldColor ->
           <<boldcolors(lType)>> \o Suffixed(message, prefixEnd, Reset)
      [] c = FullColor ->
           <<colors(lType)>> \o message \o <<Reset>>
      [] c = FullBoldColor ->
           <<boldcolors(lType)>> \o message \o <<Reset>>
      [] c = FullColorWithBoldMessage ->
           <<colors(lType)>> \o Suffixed(message, prefixEnd, boldcolors(lType)) \o <<Reset>>
      [] c = FullColorWithBoldPrefix ->
           <<boldcolors(lType)>> \o Suffixed(message, prefixEnd, colors(lType)) \o <<Reset>>
      [] OTHER -> message

\* The line of one layout and one colour scheme: the tokens of the raw line,
\* laid out by a sink of this kind alone and decorated by c alone.
OneSchemeLine(c, kind, lType, tokens) ==
    LET prefixEnd == prefixEndOf(tokens)
        laidOut == IF kind = "modernLogger"
                   THEN [tokens EXCEPT ![prefixEnd + 1] = Bracketed(@) \o "\t"]
                   ELSE tokens
    IN  Join(Decorated(c, lType, prefixEnd, laidOut), " ")

\* The fields of the raw line the standard logger composes in g's call:
\* the prefix of the logger g loaded, the date, the time, the call site and
\* the message.
GoTokens(g) ==
    <<SubSeq(gor[g].l.prefix, 1, Len(gor[g].l.prefix) - 1), Date, Time,
      FrameToken(Caller(CallDepth, Here(GoLine(gor[g].fn)), GoStack)), "up\n">>

\* C23: a Write reads the colour scheme once and its layout is fixed by the
\* type of its sink: however SetColors and SetFormat interleave with a Write
\* in flight, the line it emits is decorated according to one colour scheme
\* and one layout, that of the sink the call loaded, never a mixture of two.
C23_OneSchemeOneLayout ==
    \A g \in Goroutines :
        gor[g].pc = "writing" =>
            LET tokens == GoTokens(g)
            IN  /\ Len(gor[g].w) = 1
                /\ \E c \in ColorFormats :
                     gor[g].w[1].data
                       = OneSchemeLine(c, gor[g].l.out.kind, gor[g].l.out.logType, tokens)

\* A Write is in flight on a sink of the default layout and has decorated
\* its line by the bold prefix scheme; since it read the scheme, SetColors
\* has set another scheme, and SetFormat has set the modern layout.
C23_Witness ==
    \E g \in Goroutines :
        /\ gor[g].pc = "writing"
        /\ gor[g].l.out.kind = "defaultLogger"
        /\ Format = ModernFormat
        /\ colorFormating = FullColorWithBoldMessage
        /\ Len(gor[g].w) = 1
        /\ gor[g].w[1].data
             = OneSchemeLine(PrefixBoldColor, "defaultLogger", gor[g].l.out.logType,
                             GoTokens(g))

\* The type of sink LogFilter makes for a value of Format.
KindFor(format) ==
    CASE format = DefaultFormat -> "defaultLogger"
      [] format = ModernFormat -> "modernLogger"
      [] OTHER -> "Discard"

PackageLoggers == <<traceLog, infoLog, warningLog, errorLog, fatalLog>>

\* C24: after initialization and after every completed call of SetFormat,
\* in any sequence, each of the five package loggers (trace, info, warning,
\* error, fatal) has a sink of the layout that the current value of Format
\* gives; no logger is left on the layout before.
C24_AllLoggersOnCurrentLayout ==
    proc = "run" =>
        \A i \in DOMAIN PackageLoggers :
            /\ ~PackageLoggers[i].nil
            /\ PackageLoggers[i].out.kind = KindFor(Format)
            /\ PackageLoggers[i].out.logType = i - 1

\* SetFormat has just changed the layout from the default of init to modern
\* and the five loggers have modern sinks.
C24_Witness ==
    /\ last.fn = "SetFormat"
    /\ Format = ModernFormat
    /\ \A i \in DOMAIN PackageLoggers : PackageLoggers[i].out.kind = "modernLogger"

====
